---- MODULE Spec2Model ----
(***************************************************************************)
(* Model of src/app.py: the AsyncAPI explorer's schema store, the          *)
(* recursive schema resolver and the reference index.                      *)
(*                                                                         *)
(* Representation of Python values                                         *)
(*   dict      a sequence of <<key, value>> pairs in insertion order       *)
(*   list      a sequence                                                  *)
(*   None      the distinguished text None                                 *)
(*   text      a string the program inspects or builds (a name, a type, a  *)
(*             description) is a sequence of pieces: a name is the         *)
(*             sequence of its characters, a literal is one piece, " " is  *)
(*             a whitespace piece, and an f-string is the concatenation    *)
(*             of its literals and interpolated texts                      *)
(*   "$ref"    the sequence of the pointer's "/"-separated segments        *)
(*   a JSON value whose Python type the code tests (description, examples) *)
(*             is tagged: [str |-> text], [num |-> n], [list |-> seq]      *)
(***************************************************************************)
EXTENDS Integers, Sequences, FiniteSets, TLC

VARIABLES
    doc,        \* which document Global_CFM.json holds on disk
    cache,      \* the single slot of lru_cache around get_components
    reads,      \* how many times read_json has executed
    stack,      \* the active resolve_schema invocations, innermost last
    op,         \* the operation in progress
    ret,        \* what the last finished operation returned
    responses   \* the last /schema/{name} response per schema name

vars == <<doc, cache, reads, stack, op, ret, responses>>

----------------------------------------------------------------------------
(* Bounds *)

MaxReads == 2      \* read_json executions counted before /versions is cut off
MaxStack == 5      \* nested resolve_schema frames the interpreter is given

----------------------------------------------------------------------------
(* Python values *)

None == <<"<None>">>

W(s) == <<s>>

JNone == [none |-> TRUE]
JS(t) == [str |-> t]
JN(n) == [num |-> n]
JL(s) == [list |-> s]

IsStr(v) == "str" \in DOMAIN v
IsList(v) == "list" \in DOMAIN v

\* F applied to the value of v (v is evaluated once, however often F uses it)
Once(v, F(_)) == CHOOSE r \in {F(x) : x \in {v}} : TRUE

\* k in d
Has(d, k) == \E dv \in {d} : \E i \in 1..Len(dv) : dv[i][1] = k

\* d.get(k, default)
Get(d, k, default) ==
    Once(d, LAMBDA dv : IF \E i \in 1..Len(dv) : dv[i][1] = k
                        THEN dv[CHOOSE i \in 1..Len(dv) : dv[i][1] = k][2]
                        ELSE default)

Keys(d) == Once(d, LAMBDA dv : [i \in 1..Len(dv) |-> dv[i][1]])

Values(d) == Once(d, LAMBDA dv : [i \in 1..Len(dv) |-> dv[i][2]])

Range(s) == UNION {{sv[i] : i \in 1..Len(sv)} : sv \in {s}}

\* [F(k, v) for k, v in d.items()]
ForEach(d, F(_, _)) == Once(d, LAMBDA dv : [i \in 1..Len(dv) |-> F(dv[i][1], dv[i][2])])

\* [F(x) for x in s]
Map(s, F(_)) == Once(s, LAMBDA sv : [i \in 1..Len(sv) |-> F(sv[i])])

RECURSIVE Concat(_)
Concat(ss) ==
    Once(ss, LAMBDA v : IF v = <<>> THEN <<>> ELSE Head(v) \o Concat(Tail(v)))

\* x or y, for values that are a string or None
Or(x, y) == IF x = None \/ x = <<>> THEN y ELSE x

\* `needle in hay` for texts: a contiguous run of pieces
Contains(hay, needle) ==
    \E h \in {hay}, n \in {needle} :
        \E i \in 0..(Len(h) - Len(n)) : \A j \in 1..Len(n) : h[i + j] = n[j]

RECURSIVE Join(_, _)
Join(parts, sep) ==
    Once(parts, LAMBDA v : IF v = <<>> THEN <<>>
                           ELSE IF Len(v) = 1 THEN v[1]
                           ELSE v[1] \o sep \o Join(Tail(v), sep))

IsSpace(c) == c = " "

RECURSIVE lstrip(_)
lstrip(t) ==
    Once(t, LAMBDA v : IF v # <<>> /\ IsSpace(Head(v)) THEN lstrip(Tail(v)) ELSE v)

RECURSIVE rstrip(_)
rstrip(t) ==
    Once(t, LAMBDA v : IF v # <<>> /\ IsSpace(v[Len(v)])
                       THEN rstrip(SubSeq(v, 1, Len(v) - 1)) ELSE v)

strip(t) == rstrip(lstrip(t))

UpperOf ==
    << <<"a", "A">>, <<"b", "B">>, <<"c", "C">>, <<"d", "D">>, <<"e", "E">>,
       <<"f", "F">>, <<"g", "G">>, <<"h", "H">>, <<"i", "I">>, <<"j", "J">>,
       <<"k", "K">>, <<"l", "L">>, <<"m", "M">>, <<"n", "N">>, <<"o", "O">>,
       <<"p", "P">>, <<"q", "Q">>, <<"r", "R">>, <<"s", "S">>, <<"t", "T">>,
       <<"u", "U">>, <<"v", "V">>, <<"w", "W">>, <<"x", "X">>, <<"y", "Y">>,
       <<"z", "Z">> >>

isupper(c) == \E i \in 1..Len(UpperOf) : UpperOf[i][2] = c

upper(c) == Get(UpperOf, c, c)

lower(c) ==
    IF isupper(c) THEN UpperOf[CHOOSE i \in 1..Len(UpperOf) : UpperOf[i][2] = c][1]
    ELSE c

capitalize(word) ==
    Once(word, LAMBDA w : [i \in 1..Len(w) |-> IF i = 1 THEN upper(w[i]) ELSE lower(w[i])])

startswith(name, p) == Len(name) >= Len(p) /\ SubSeq(name, 1, Len(p)) = p

----------------------------------------------------------------------------
(* Helpers *)

\* Every value on the paths the program walks is a mapping in the documents
\* modelled here, so the isinstance test is the membership test alone.
RECURSIVE deep_get(_, _, _)
deep_get(d, path, default) ==
    Once(<<d, path>>,
         LAMBDA v : IF v[2] = <<>> THEN v[1]
                    ELSE IF ~Has(v[1], Head(v[2])) THEN default
                    ELSE deep_get(Get(v[1], Head(v[2]), default), Tail(v[2]), default))

\* any string is stripped and returned, a blank one too
normalize_desc_unchecked(desc, fallback_name) ==
    Once(desc, LAMBDA v : IF IsStr(v)
                          THEN strip(v.str)
                          ELSE W("No description provided for \"") \o fallback_name \o W("\"."))

normalize_desc(desc, fallback_name) ==
    Once(desc, LAMBDA v : IF IsStr(v) /\ strip(v.str) # <<>>
                          THEN strip(v.str)
                          ELSE W("No description provided for \"") \o fallback_name \o W("\"."))

ref_name(ref) == IF ref = <<>> THEN <<>> ELSE ref[Len(ref)]

prefixes == << <<"d", "e", "f", "i", "n", "e", "d", "A", "t">>, <<"i", "s">>,
               <<"h", "a", "s">>, <<"x">> >>

\* the prefix loop of clean_name: the first prefix the name starts with is cut off
StripPrefix(name) ==
    Once(name,
         LAMBDA n : IF \E i \in 1..Len(prefixes) : startswith(n, prefixes[i])
                    THEN SubSeq(n, Len(prefixes[CHOOSE k \in 1..Len(prefixes) :
                                                   /\ startswith(n, prefixes[k])
                                                   /\ \A m \in 1..(k - 1) :
                                                          ~startswith(n, prefixes[m])]) + 1,
                                Len(n))
                    ELSE n)

\* the words loop of clean_name: words after the characters of name, given
\* the words and the current word so far
RECURSIVE SplitWords(_, _, _)
SplitWords(name, words, current) ==
    Once(<<name, words, current>>,
         LAMBDA v : IF v[1] = <<>>
                    THEN IF v[3] # <<>> THEN Append(v[2], v[3]) ELSE v[2]
                    ELSE IF isupper(Head(v[1])) /\ v[3] # <<>>
                         THEN SplitWords(Tail(v[1]), Append(v[2], v[3]), <<Head(v[1])>>)
                         ELSE SplitWords(Tail(v[1]), v[2], Append(v[3], Head(v[1]))))

clean_name(name) == Concat(Map(SplitWords(StripPrefix(name), <<>>, <<>>), capitalize))

----------------------------------------------------------------------------
(* The documents Global_CFM.json may hold *)

Ref(n) == <<W("#"), W("components"), W("schemas"), n>>

RefNode(n) == << <<"$ref", Ref(n)>> >>

Typed(t) == << <<"type", t>> >>

Document(version, schemas) ==
    << <<"info", << <<"version", version>> >> >>,
       <<"components", << <<"schemas", schemas>> >> >> >>

tArray == <<"a", "r", "r", "a", "y">>
tBoolean == <<"b", "o", "o", "l", "e", "a", "n">>
tInteger == <<"i", "n", "t", "e", "g", "e", "r">>
tNumber == <<"n", "u", "m", "b", "e", "r">>
tObject == <<"o", "b", "j", "e", "c", "t">>
tString == <<"s", "t", "r", "i", "n", "g">>

nA == <<"A">>
nB == <<"B">>
nC == <<"C">>
nS1 == <<"S", "1">>
nS2 == <<"S", "2">>
nS3 == <<"S", "3">>
nS4 == <<"S", "4">>
nM1 == <<"M", "1">>
nM2 == <<"M", "2">>
nM3 == <<"M", "3">>
nM4 == <<"M", "4">>
nOrder == <<"O", "r", "d", "e", "r">>
nCustomer == <<"C", "u", "s", "t">>
nExtra == <<"E", "x", "t">>
nNowhere == <<"N", "o">>
nMissing == <<"Z">>

\* A and B reference each other through a property; C references itself
CycleSchemas ==
    << <<nA, << <<"x-tag", <<"t", "a", "g", "A">>>>,
                <<"properties", << <<W("x"), RefNode(nB)>> >> >> >> >>,
       <<nB, << <<"properties",
                  << <<W("y"), RefNode(nA)
                               \o << <<"description", JS(<<" ", "b", "a", "c", "k", " ">>)>> >> >> >> >> >> >>,
       <<nC, << <<"properties", << <<<<"i", "s", "S", "e", "l", "f">>, RefNode(nC)>> >> >>,
                <<"allOf", <<RefNode(nA)>> >> >> >> >>

\* four schemas, each referencing the next through a property
ChainLink(n) == << <<"properties", << <<<<"n", "e", "x", "t">>, RefNode(n)>> >> >> >>

ChainSchemas ==
    << <<nS1, ChainLink(nS2)>>,
       <<nS2, ChainLink(nS3)>>,
       <<nS3, ChainLink(nS4)>>,
       <<nS4, << <<"properties", << <<<<"l", "e", "a", "f">>, Typed(tString)>> >> >> >> >> >>

\* a chain through array items, allOf and an inline items property
MixedSchemas ==
    << <<nM1, << <<"properties",
                   << <<<<"l", "i", "s", "t">>,
                        Typed(tArray) \o << <<"items", RefNode(nM2)>> >> >> >> >> >> >>,
       <<nM2, << <<"allOf", <<RefNode(nM3)>> >> >> >>,
       <<nM3, << <<"properties",
                   << <<<<"r", "o", "w", "s">>,
                        Typed(tArray)
                        \o << <<"items",
                                Typed(tObject)
                                \o << <<"properties",
                                        << <<<<"c", "e", "l", "l">>, RefNode(nM4)>>,
                                           <<<<"a", "l", "l">>,
                                             Typed(tArray)
                                             \o << <<"items", RefNode(nM4)>> >> >> >> >> >> >> >> >> >> >>,
                 <<"allOf", <<RefNode(nM4)>> >> >> >>,
       <<nM4, << <<"properties", << <<W("v"), Typed(tString)>>,
                                    <<W("u"), RefNode(nM1)>> >> >> >> >> >>

\* the inline object of Order.lines
LineItem ==
    Typed(tObject)
    \o << <<"properties",
            << <<<<"s", "k", "u">>, Typed(tString) \o << <<"x-tag", <<"s", "k", "u", "T", "a", "g">>>> >> >>,
               <<<<"o", "w", "n", "e", "r">>, RefNode(nCustomer)>>,
               <<<<"t", "a", "g", "s">>, Typed(tArray) \o << <<"items", Typed(tString)>> >> >>,
               <<<<"d", "i", "m">>,
                 Typed(tObject)
                 \o << <<"properties", << <<W("w"), Typed(tNumber)>> >> >> >> >>,
               <<<<"r", "e", "l">>, Typed(tArray) \o << <<"items", RefNode(nCustomer)>> >> >> >> >> >>

RichSchemas ==
    << <<nOrder,
         << <<"title", <<"O", "r", "d">>>>,
            <<"x-tag", <<"o", "r", "d", "e", "r", "s">>>>,
            <<"x-since-version", <<"1", ".", "2">>>>,
            <<"properties",
              << <<<<"i", "d">>, Typed(tString)>>,
                 <<<<"n", "o", "t", "e">>,
                   Typed(tString) \o << <<"description", JS(<<" ">>)>>,
                                         <<"x-tag", <<>>>> >> >>,
                 <<<<"c", "o", "d", "e">>,
                   Typed(tInteger) \o << <<"description", JN(5)>>,
                                          <<"examples", JS(<<"E", "1">>)>>,
                                          <<"x-tag", <<"o", "w", "n">>>> >> >>,
                 <<<<"c", "u", "s", "t">>, RefNode(nCustomer)>>,
                 <<<<"l", "i", "n", "e", "s">>,
                   Typed(tArray) \o << <<"items", LineItem>>,
                                        <<"examples", JL(<<<<"L", "1">>, <<"L", "2">>>>)>> >> >>,
                 <<<<"g", "o", "n", "e">>, RefNode(nNowhere)>> >> >>,
            <<"allOf", <<RefNode(nCustomer), Typed(tObject)>> >> >> >>,
       <<nCustomer,
         << <<"description", JS(<<"a", " ", "c", "u", "s", "t", "o", "m", "e", "r">>)>>,
            <<"x-field-type", <<"c", "o", "r", "e">>>>,
            <<"x-since-version", <<"U", "n", "k", "n", "o", "w", "n">>>>,
            <<"properties",
              << <<<<"i", "s", "V", "i", "p">>,
                   Typed(tBoolean) \o << <<"description", JS(<<"v", "i", "p">>)>> >> >> >> >>,
            <<"oneOf", <<RefNode(nExtra), Typed(tString)>> >> >> >>,
       <<nExtra,
         << <<"type", tString>>,
            <<"anyOf", <<RefNode(nOrder)>> >> >> >> >>

Docs ==
    << Document(<<"1", ".", "0">>, CycleSchemas),
       Document(<<"2", ".", "0">>, ChainSchemas),
       Document(<<"2", ".", "1">>, MixedSchemas),
       Document(<<"3", ".", "0">>, RichSchemas),
       << <<"info", << <<"version", <<"0", ".", "1">>>> >> >> >> >>

DocIds == 1..Len(Docs)

----------------------------------------------------------------------------
(* Schema resolution *)

DepthLimit == 2

Truthy(v) == ~("none" \in DOMAIN v) /\ (IsStr(v) => v.str # <<>>)
             /\ (IsList(v) => v.list # <<>>) /\ ("num" \in DOMAIN v => v.num # 0)

\* examples = node.get("examples") or []; examples if isinstance(examples, list) else [examples]
ExamplesOf(node) ==
    LET examples == Get(node, "examples", JNone)
    IN IF ~Truthy(examples) THEN <<>>
       ELSE IF IsList(examples) THEN examples.list ELSE <<examples>>

\* the nested call written resolve_schema(ref): visited and depth not passed on
CallArgsDefaults(ref, visited, schema_name, depth) ==
    [schema_name |-> ref, visited |-> <<>>, depth |-> 0]

\* the arguments of a nested call resolve_schema(ref, visited + (schema_name,), depth + 1)
CallArgs(ref, visited, schema_name, depth) ==
    [schema_name |-> ref, visited |-> Append(visited, schema_name), depth |-> depth + 1]

\* child.get("attributes", []) of a nested call, once the callee has returned
\* (rets holds the results of the calls this frame has made so far)
ChildAttributes(rets, args) ==
    Once(<<rets, args>>,
         LAMBDA v : IF \E i \in 1..Len(v[1]) : v[1][i].args = v[2]
                    THEN v[1][CHOOSE i \in 1..Len(v[1]) : v[1][i].args = v[2]].node.attributes
                    ELSE <<>>)

Collapsed(ref) ==
    [name |-> W("(ref) ") \o ref, type |-> tObject,
     description |-> W("Reference (collapsed)"), examples |-> <<>>]

\* the depth test written depth <= 2
DescendsInclusive(depth) == depth <= DepthLimit

\* if depth < 2: the reference is resolved, else it is collapsed
Descends(depth) == depth < DepthLimit

\* the children a reference gives an attribute
FollowRef(rets, ref, visited, schema_name, depth) ==
    IF Descends(depth)
    THEN ChildAttributes(rets, CallArgs(ref, visited, schema_name, depth))
    ELSE <<Collapsed(ref)>>

\* the nested call a reference makes, if any
FollowRefCalls(ref, visited, schema_name, depth) ==
    IF Descends(depth) THEN <<CallArgs(ref, visited, schema_name, depth)>> ELSE <<>>

RECURSIVE build_attr(_, _, _, _, _, _)
build_attr(name, node, owner, visited_tuple, dpth, rets) ==
    LET hasRef == Has(node, "$ref")
        r == ref_name(Get(node, "$ref", <<>>))
        ptype1 == IF hasRef THEN r ELSE Get(node, "type", tObject)
        props == Get(node, "properties", <<>>)
        children1 ==
            (IF hasRef THEN FollowRef(rets, r, visited_tuple, owner, dpth) ELSE <<>>)
            \o ForEach(props, LAMBDA subname, subnode :
                           build_attr(subname, subnode, owner, visited_tuple, dpth, rets))
        isArray == ptype1 = tArray \/ Get(node, "type", None) = tArray
        items == Get(node, "items", <<>>)
        it_type == Get(items, "type", tObject)
        ir == ref_name(Get(items, "$ref", <<>>))
    IN [name |-> clean_name(name),
        type |-> IF ~isArray THEN ptype1
                 ELSE IF Has(items, "$ref") THEN W("array of ") \o ir
                 ELSE W("array of ") \o it_type,
        description |-> normalize_desc(Get(node, "description", JNone), name),
        examples |-> ExamplesOf(node),
        children |-> IF isArray /\ Has(items, "$ref")
                     THEN FollowRef(rets, ir, visited_tuple, owner, dpth)
                     ELSE children1]

\* the nested calls build_attr makes, in order
RECURSIVE build_attr_calls(_, _, _, _)
build_attr_calls(node, owner, visited_tuple, dpth) ==
    LET hasRef == Has(node, "$ref")
        r == ref_name(Get(node, "$ref", <<>>))
        ptype1 == IF hasRef THEN r ELSE Get(node, "type", tObject)
        props == Get(node, "properties", <<>>)
        isArray == ptype1 = tArray \/ Get(node, "type", None) = tArray
        items == Get(node, "items", <<>>)
    IN (IF hasRef THEN FollowRefCalls(r, visited_tuple, owner, dpth) ELSE <<>>)
       \o Concat(ForEach(props, LAMBDA subname, subnode :
                                  build_attr_calls(subnode, owner, visited_tuple, dpth)))
       \o (IF isArray /\ Has(items, "$ref")
           THEN FollowRefCalls(ref_name(Get(items, "$ref", <<>>)), visited_tuple, owner, dpth)
           ELSE <<>>)

\* the attribute add_property appends to attrs
add_property(name, node, raw, schema_name, visited, depth, rets) ==
    LET ptype0 == Get(node, "type", None)
        children0 ==
            IF Has(node, "$ref")
            THEN FollowRef(rets, ref_name(Get(node, "$ref", <<>>)), visited, schema_name, depth)
            ELSE <<>>
        isArray == ptype0 = tArray
        items == Get(node, "items", <<>>)
        iref == ref_name(Get(items, "$ref", <<>>))
        props == Get(items, "properties", <<>>)
        ptype == IF ~isArray THEN ptype0
                 ELSE IF Has(items, "$ref") THEN W("array of ") \o iref
                 ELSE W("array of ") \o Get(items, "type", tObject)
    IN [name |-> clean_name(name),
        type |-> Or(ptype, tObject),
        description |-> normalize_desc(Get(node, "description", JNone), name),
        examples |-> ExamplesOf(node),
        xSinceVersion |-> Or(Get(node, "x-since-version", None),
                             Get(raw, "x-since-version", None)),
        xFieldType |-> Or(Get(node, "x-field-type", None), Get(raw, "x-field-type", None)),
        xTag |-> Or(Get(node, "x-tag", None), Get(raw, "x-tag", None)),
        children |->
            IF ~isArray THEN children0
            ELSE IF Has(items, "$ref") THEN FollowRef(rets, iref, visited, schema_name, depth)
            ELSE children0
                 \o ForEach(props, LAMBDA subname, subnode :
                                build_attr(subname, subnode, schema_name, visited, depth, rets))]

\* the nested calls add_property makes, in order
add_property_calls(node, schema_name, visited, depth) ==
    LET items == Get(node, "items", <<>>)
        props == Get(items, "properties", <<>>)
    IN (IF Has(node, "$ref")
        THEN FollowRefCalls(ref_name(Get(node, "$ref", <<>>)), visited, schema_name, depth)
        ELSE <<>>)
       \o (IF Get(node, "type", None) # tArray THEN <<>>
           ELSE IF Has(items, "$ref")
                THEN FollowRefCalls(ref_name(Get(items, "$ref", <<>>)),
                                    visited, schema_name, depth)
                ELSE Concat(ForEach(props, LAMBDA subname, subnode :
                                build_attr_calls(subnode, schema_name, visited, depth))))

\* the attributes one member of raw["allOf"] appends to attrs
AllOfMember(member, schema_name, visited, depth, rets) ==
    IF ~Has(member, "$ref") THEN <<>>
    ELSE LET base == ref_name(Get(member, "$ref", <<>>))
         IN IF Descends(depth)
            THEN <<[name |-> W("(allOf) ") \o clean_name(base),
                    type |-> tObject,
                    description |-> W("Inherits from ") \o base \o W("."),
                    examples |-> <<>>,
                    children |-> ChildAttributes(rets, CallArgs(base, visited,
                                                                schema_name, depth))]>>
            ELSE <<[name |-> W("(allOf) ") \o clean_name(base),
                    type |-> tObject,
                    description |-> W("Inheritance (collapsed)."),
                    examples |-> <<>>,
                    children |-> <<>>]>>

\* the nested call one member of raw["allOf"] makes, if any
AllOfMemberCalls(member, schema_name, visited, depth) ==
    IF Has(member, "$ref")
    THEN FollowRefCalls(ref_name(Get(member, "$ref", <<>>)), visited, schema_name, depth)
    ELSE <<>>

Circular(schema_name, visited) ==
    [title |-> schema_name, type |-> tObject,
     description |-> W("Circular reference: ")
                     \o Join(Append(visited, schema_name), W(" → ")),
     attributes |-> <<>>]

\* the unknown-schema node without the name in its description
UnknownUnnamed(schema_name) ==
    [title |-> schema_name, type |-> tObject,
     description |-> W("Unknown schema."),
     attributes |-> <<>>]

Unknown(schema_name) ==
    [title |-> schema_name, type |-> tObject,
     description |-> W("Unknown schema '") \o schema_name \o W("'."),
     attributes |-> <<>>]

\* The node resolve_schema returns for a schema found in the store, once the
\* nested calls it makes have returned.
Resolved(raw, schema_name, visited, depth, rets) ==
    LET title == Get(raw, "title", schema_name)
        props == Get(raw, "properties", <<>>)
        allOf == Get(raw, "allOf", <<>>)
    IN [title |-> title,
        type |-> Get(raw, "type", tObject),
        description |-> normalize_desc(Get(raw, "description", JNone), title),
        xSinceVersion |-> Get(raw, "x-since-version", None),
        xFieldType |-> Get(raw, "x-field-type", None),
        xTag |-> Get(raw, "x-tag", None),
        attributes |->
            ForEach(props, LAMBDA pname, pnode :
                        add_property(pname, pnode, raw, schema_name, visited, depth, rets))
            \o Concat(Map(allOf, LAMBDA member :
                              AllOfMember(member, schema_name, visited, depth, rets)))]

\* the nested calls that invocation makes, in order
ResolvedCalls(raw, schema_name, visited, depth) ==
    LET props == Get(raw, "properties", <<>>)
        allOf == Get(raw, "allOf", <<>>)
    IN Concat(ForEach(props, LAMBDA pname, pnode :
                         add_property_calls(pnode, schema_name, visited, depth)))
       \o Concat(Map(allOf, LAMBDA member :
                         AllOfMemberCalls(member, schema_name, visited, depth)))

----------------------------------------------------------------------------
(* Recursive $ref finder *)

RECURSIVE find_all_refs(_)
find_all_refs(node) ==
    LET own == IF Has(node, "$ref") THEN <<ref_name(Get(node, "$ref", <<>>))>> ELSE <<>>
        inItems == IF Has(node, "items") THEN find_all_refs(Get(node, "items", <<>>))
                   ELSE <<>>
        inProps == Concat(Map(Values(Get(node, "properties", <<>>)), find_all_refs))
        Under(key) == Concat(Map(Get(node, key, <<>>), find_all_refs))
    IN own \o inItems \o inProps \o Under("allOf") \o Under("oneOf") \o Under("anyOf")

\* list(xs): the set() left out
ListsKeepingDuplicates(xs) == {xs}

\* list(set(xs)): the distinct elements, in any order the hash seed produces
ListsOfSet(xs) ==
    LET S == Range(xs)
    IN {l \in [1..Cardinality(S) -> S] : Range(l) = S}

\* the scan without the allOf / oneOf / anyOf members of the other schemas
ScanReferencedByProperties(comps, name) ==
    LET Step(i) ==
            IF comps[i][1] = name THEN <<>>
            ELSE IF name \in Range(find_all_refs(
                                     << <<"properties", Get(comps[i][2], "properties", <<>>)>> >>))
                 THEN <<comps[i][1]>>
                 ELSE <<>>
    IN Concat([i \in 1..Len(comps) |-> Step(i)])

\* the names appended to ref_by by the scan of get_schema
ScanReferencedBy(comps, name) ==
    LET Step(i) == IF comps[i][1] = name THEN <<>>
                   ELSE IF name \in Range(find_all_refs(comps[i][2])) THEN <<comps[i][1]>>
                   ELSE <<>>
    IN Concat([i \in 1..Len(comps) |-> Step(i)])

----------------------------------------------------------------------------
(* Schema store *)

read_json == Docs[doc]

ComponentsOf(data) == deep_get(data, <<"components", "schemas">>, <<>>)

\* get_components() under lru_cache(maxsize=1): the value returned and the
\* cache slot and read count it leaves behind
get_components ==
    IF cache.loaded
    THEN [value |-> cache.value, cache |-> cache, reads |-> reads]
    ELSE LET comps == ComponentsOf(read_json)
         IN [value |-> comps, cache |-> [loaded |-> TRUE, value |-> comps],
             reads |-> reads + 1]

AllNames ==
    UNION {Range(Keys(ComponentsOf(Docs[d]))) : d \in DocIds} \cup {nNowhere, nMissing}

Queries == {<<>>, <<" ">>, <<"s">>, <<"O", "r">>, <<"c", "o", "r", "e">>}

NoResponse == [status |-> 0]

Idle == [kind |-> "idle"]

NoReturn == [kind |-> "none"]

\* the names a caller asks for: the schemas of the document and two absent names
RequestNames == Range(Keys(ComponentsOf(Docs[doc]))) \cup {nNowhere, nMissing}

----------------------------------------------------------------------------
(* State machine *)

Init ==
    /\ doc \in DocIds
    /\ cache = [loaded |-> FALSE]
    /\ reads = 0
    /\ stack = <<>>
    /\ op = Idle
    /\ ret = NoReturn
    /\ responses = [n \in AllNames |-> NoResponse]

Frame(args) == [args |-> args, pc |-> "enter", rets |-> <<>>]

\* resolve_schema(name) with visited=None and depth=0
RootArgs(name) == [schema_name |-> name, visited |-> <<>>, depth |-> 0]

Top == stack[Len(stack)]

\* the top frame returns node to its caller
Return(node) ==
    IF Len(stack) = 1
    THEN /\ stack' = <<>>
         /\ ret' = [kind |-> "resolved", name |-> Top.args.schema_name, node |-> node]
         /\ op' = IF op.kind = "get_schema" THEN [op EXCEPT !.kind = "get_schema_index"]
                  ELSE Idle
    ELSE /\ stack' = [SubSeq(stack, 1, Len(stack) - 1) EXCEPT
                         ![Len(stack) - 1].rets =
                             Append(@, [args |-> Top.args, node |-> node])]
         /\ UNCHANGED <<ret, op>>

\* a direct call resolve_schema(name)
CallResolve(name) ==
    /\ op = Idle
    /\ stack' = <<Frame(RootArgs(name))>>
    /\ op' = [kind |-> "resolve_schema", name |-> name]
    /\ ret' = NoReturn
    /\ UNCHANGED <<doc, cache, reads, responses>>

\* if schema_name in visited: return the circular-reference node
ResolveCircular ==
    /\ stack # <<>>
    /\ Top.pc = "enter"
    /\ Top.args.schema_name \in Range(Top.args.visited)
    /\ Return(Circular(Top.args.schema_name, Top.args.visited))
    /\ UNCHANGED <<doc, cache, reads, responses>>

\* raw = get_components().get(schema_name) is None: return the unknown-schema node
ResolveUnknown ==
    /\ stack # <<>>
    /\ Top.pc = "enter"
    /\ Top.args.schema_name \notin Range(Top.args.visited)
    /\ LET g == get_components
       IN /\ ~Has(g.value, Top.args.schema_name)
          /\ cache' = g.cache
          /\ reads' = g.reads
    /\ Return(Unknown(Top.args.schema_name))
    /\ UNCHANGED <<doc, responses>>

\* raw was found: the invocation goes on to build its attributes
ResolveFound ==
    /\ stack # <<>>
    /\ Top.pc = "enter"
    /\ Top.args.schema_name \notin Range(Top.args.visited)
    /\ LET g == get_components
       IN /\ Has(g.value, Top.args.schema_name)
          /\ cache' = g.cache
          /\ reads' = g.reads
    /\ stack' = [stack EXCEPT ![Len(stack)].pc = "body"]
    /\ UNCHANGED <<doc, op, ret, responses>>

\* the nested calls the top frame makes, in order
TopCalls ==
    ResolvedCalls(Get(cache.value, Top.args.schema_name, <<>>), Top.args.schema_name,
                  Top.args.visited, Top.args.depth)

\* the node the top frame returns, given the results of its nested calls
TopNode ==
    Resolved(Get(cache.value, Top.args.schema_name, <<>>), Top.args.schema_name,
             Top.args.visited, Top.args.depth, Top.rets)

\* the top frame reaches its next nested call
ResolveCall ==
    /\ stack # <<>>
    /\ Top.pc = "body"
    /\ Len(Top.rets) < Len(TopCalls)
    /\ Len(stack) < MaxStack
    /\ stack' = Append(stack, Frame(TopCalls[Len(Top.rets) + 1]))
    /\ UNCHANGED <<doc, cache, reads, op, ret, responses>>

\* every nested call has returned: the top frame returns its node
ResolveReturn ==
    /\ stack # <<>>
    /\ Top.pc = "body"
    /\ Len(Top.rets) = Len(TopCalls)
    /\ Return(TopNode)
    /\ UNCHANGED <<doc, cache, reads, responses>>

ResolveStep ==
    \/ ResolveCircular
    \/ ResolveUnknown
    \/ ResolveFound
    \/ ResolveCall
    \/ ResolveReturn

\* GET /schema/{name}, name not in the store: 404
GetSchemaNotFound(name) ==
    /\ op = Idle
    /\ LET g == get_components
       IN /\ ~Has(g.value, name)
          /\ cache' = g.cache
          /\ reads' = g.reads
    /\ ret' = [kind |-> "error", status |-> 404, name |-> name]
    /\ UNCHANGED <<doc, stack, op, responses>>

\* GET /schema/{name}: resolved = resolve_schema(name)
GetSchemaResolve(name) ==
    /\ op = Idle
    /\ LET g == get_components
       IN /\ Has(g.value, name)
          /\ cache' = g.cache
          /\ reads' = g.reads
    /\ stack' = <<Frame(RootArgs(name))>>
    /\ op' = [kind |-> "get_schema", name |-> name]
    /\ ret' = NoReturn
    /\ UNCHANGED <<doc, responses>>

\* GET /schema/{name}, after resolve_schema: references, referencedBy, counts
GetSchemaIndex ==
    /\ op.kind = "get_schema_index"
    /\ LET comps == cache.value
           name == op.name
       IN \E refs \in ListsOfSet(find_all_refs(Get(comps, name, <<>>))),
             ref_by \in ListsOfSet(ScanReferencedBy(comps, name)) :
              LET response ==
                      ret.node @@ [status |-> 200,
                                   references |-> refs,
                                   referencedBy |-> ref_by,
                                   relationshipSummary |->
                                       [referencedByCount |-> Len(ref_by),
                                        referencesCount |-> Len(refs)]]
              IN /\ responses' = [responses EXCEPT ![name] = response]
                 /\ ret' = [kind |-> "schema", name |-> name, node |-> response]
    /\ op' = Idle
    /\ UNCHANGED <<doc, cache, reads, stack>>

\* GET /tree (the ids listed; their order and the other node fields are left out)
get_tree ==
    /\ op = Idle
    /\ LET g == get_components
       IN /\ cache' = g.cache
          /\ reads' = g.reads
          /\ ret' = [kind |-> "tree", ids |-> Range(Keys(g.value))]
    /\ UNCHANGED <<doc, stack, op, responses>>

\* the haystack of one schema in /search, before lower()
Hay(name, sch) ==
    LET description == Get(sch, "description", JNone)
        fields == <<name, Get(sch, "title", <<>>),
                    IF IsStr(description) THEN description.str ELSE <<>>,
                    Get(sch, "x-tag", <<>>),
                    Get(sch, "x-field-type", <<>>)>>
    IN Join(SelectSeq(fields, LAMBDA f : f # <<>>), W(" "))

LowerText(t) == [i \in 1..Len(t) |-> lower(t[i])]

\* GET /search?q= (the ids found; their order is left out)
search(q) ==
    /\ op = Idle
    /\ LET g == get_components
           needle == LowerText(strip(q))
       IN /\ cache' = g.cache
          /\ reads' = g.reads
          /\ ret' = [kind |-> "search",
                     ids |-> IF needle = <<>> THEN {}
                             ELSE {g.value[i][1] : i \in
                                     {j \in 1..Len(g.value) :
                                        Contains(LowerText(Hay(g.value[j][1], g.value[j][2])),
                                                 needle)}}]
    /\ UNCHANGED <<doc, stack, op, responses>>

\* GET /versions: data = read_json() on every request
get_versions ==
    /\ op = Idle
    /\ reads < MaxReads
    /\ LET data == read_json
           comps == ComponentsOf(data)
           found == {Get(comps[i][2], "x-since-version", None) : i \in 1..Len(comps)}
           info_version == Get(Get(data, "info", <<>>), "version", None)
       IN ret' = [kind |-> "versions",
                  versions |-> {v \in found : Or(v, None) # None /\ v # <<"U", "n", "k", "n", "o", "w", "n">>}
                               \cup {v \in {info_version} : Or(v, None) # None}]
    /\ reads' = reads + 1
    /\ UNCHANGED <<doc, cache, stack, op, responses>>

Next ==
    \/ \E name \in RequestNames : CallResolve(name)
    \/ ResolveCircular
    \/ ResolveUnknown
    \/ ResolveFound
    \/ ResolveCall
    \/ ResolveReturn
    \/ \E name \in RequestNames : GetSchemaNotFound(name)
    \/ \E name \in RequestNames : GetSchemaResolve(name)
    \/ GetSchemaIndex
    \/ get_tree
    \/ \E q \in Queries : search(q)
    \/ get_versions

Spec == Init /\ [][Next]_vars

\* resolve_schema alone; a call that has started keeps running until it returns
ResolveNext ==
    \/ \E name \in RequestNames : CallResolve(name)
    \/ ResolveCircular
    \/ ResolveUnknown
    \/ ResolveFound
    \/ ResolveCall
    \/ ResolveReturn

ResolveSpec == Init /\ [][ResolveNext]_vars /\ WF_vars(ResolveStep)

\* the /schema/{name} route alone
IndexNext ==
    \/ ResolveCircular
    \/ ResolveUnknown
    \/ ResolveFound
    \/ ResolveCall
    \/ ResolveReturn
    \/ \E name \in RequestNames : GetSchemaNotFound(name)
    \/ \E name \in RequestNames : GetSchemaResolve(name)
    \/ GetSchemaIndex

IndexSpec == Init /\ [][IndexNext]_vars

----------------------------------------------------------------------------
(* What the properties read off a state *)

\* the store the program serves from: components.schemas of the document
Store == ComponentsOf(Docs[doc])

\* every attribute of a tree, at every level
RECURSIVE AllAttrs(_)
AllAttrs(attrs) ==
    attrs \o Concat([i \in 1..Len(attrs) |->
                        IF "children" \in DOMAIN attrs[i]
                        THEN AllAttrs(attrs[i].children) ELSE <<>>])

\* the root call has returned
RootReturned == stack = <<>> /\ ret.kind = "resolved"

\* every invocation that has returned and whose result is still held: the
\* root's, and the nested ones held by their callers
Returns ==
    (IF ret.kind = "resolved" THEN {[schema_name |-> ret.name, node |-> ret.node]} ELSE {})
    \cup UNION {{[schema_name |-> stack[i].rets[j].args.schema_name,
                  node |-> stack[i].rets[j].node] : j \in 1..Len(stack[i].rets)} :
                   i \in 1..Len(stack)}

\* a returned node that is the expansion of a stored schema (not a terminal node)
IsExpansion(r) == "xTag" \in DOMAIN r.node

\* The inline properties under a property node paired with the attributes
\* built for them, at every nesting level: <<name, node, attr>>.
RECURSIVE InlinePairs(_, _)
InlinePairs(props, children) ==
    LET offset == Len(children) - Len(props)
        Under(i) ==
            LET node == props[i][2]
                attr == children[offset + i]
                items == Get(node, "items", <<>>)
                replaced == Get(node, "type", None) = tArray /\ Has(items, "$ref")
            IN <<[name |-> props[i][1], node |-> node, attr |-> attr]>>
               \o (IF replaced THEN <<>>
                   ELSE InlinePairs(Get(node, "properties", <<>>), attr.children))
    IN Concat([i \in 1..Len(props) |-> Under(i)])

\* the top-level properties of a stored schema paired with their attributes
TopPairs(r) ==
    LET props == Get(Get(Store, r.schema_name, <<>>), "properties", <<>>)
    IN [i \in 1..Len(props) |->
           [name |-> props[i][1], node |-> props[i][2], attr |-> r.node.attributes[i]]]

\* the nested inline properties (of array items) under the top-level properties
NestedPairs(r) ==
    LET top == TopPairs(r)
        Under(i) ==
            LET items == Get(top[i].node, "items", <<>>)
            IN IF Get(top[i].node, "type", None) = tArray /\ ~Has(items, "$ref")
               THEN InlinePairs(Get(items, "properties", <<>>), top[i].attr.children)
               ELSE <<>>
    IN Concat([i \in 1..Len(top) |-> Under(i)])

----------------------------------------------------------------------------
(* Properties *)

\* C1: on every store, cyclic or not, a call of resolve_schema that has
\* started returns: the chain of nested invocations it opens is emptied again.
C1_Terminates == (stack # <<>>) ~> (stack = <<>>)

\* a root call on the store whose schemas reference each other and themselves
\* has returned
C1_Witness ==
    /\ doc = 1
    /\ RootReturned
    /\ ret.name \in {nA, nB, nC}

\* the ordered cycle through a schema of the cyclic store, as the program
\* writes a path
CyclePath(name) ==
    Join(IF name = nA THEN <<nA, nB, nA>>
         ELSE IF name = nB THEN <<nB, nA, nB>>
         ELSE <<nC, nC>>, W(" → "))

\* C2: when resolve_schema(A) returns on the store where A.x references B and
\* B.y references A, some description in the returned tree holds the path
\* "A → B → A" (likewise for B, and for the self-referencing C).
C2_CyclePathInTree ==
    (doc = 1 /\ RootReturned /\ ret.name \in {nA, nB, nC}) =>
        \/ Contains(ret.node.description, CyclePath(ret.name))
        \/ \E a \in Range(AllAttrs(ret.node.attributes)) :
               Contains(a.description, CyclePath(ret.name))

\* C3: no invocation runs at a depth above 2; and resolving S1 of the chain
\* S1 -> S2 -> S3 -> S4 invokes only S1, S2 and S3, and returns a tree whose
\* third level holds the single placeholder "(ref) S4" and nothing of S4.
C3_DepthBound ==
    /\ \A i \in 1..Len(stack) : stack[i].args.depth <= 2
    /\ (doc = 2 /\ stack # <<>> /\ stack[1].args.schema_name = nS1) =>
           \A i \in 1..Len(stack) : stack[i].args.schema_name \in {nS1, nS2, nS3}
    /\ (doc = 2 /\ RootReturned /\ ret.name = nS1) =>
           LET hop1 == ret.node.attributes
               hop2 == hop1[1].children
               hop3 == hop2[1].children
           IN /\ Len(hop1) = 1 /\ Len(hop2) = 1 /\ Len(hop3) = 1
              /\ hop3[1].children =
                     <<[name |-> <<"(ref) ", "S", "4">>,
                        type |-> <<"o", "b", "j", "e", "c", "t">>,
                        description |-> <<"Reference (collapsed)">>,
                        examples |-> <<>>]>>
              /\ \A a \in Range(AllAttrs(hop1)) : a.name # <<"L", "e", "a", "f">>

\* resolve_schema(S1) has returned on the chain store, and an invocation at
\* depth 2 has run on the way
C3_Witness ==
    /\ doc = 2
    /\ RootReturned
    /\ ret.name = nS1
    /\ Len(AllAttrs(ret.node.attributes)) = 4

\* C4: for a name absent from the store, resolve_schema returns a node whose
\* description contains the name and whose attributes are empty; the call
\* always returns, and the loaded store is never changed.
C4_UnknownIsTerminal ==
    /\ [](\A r \in Returns :
             ~Has(Store, r.schema_name) =>
                 /\ r.node.attributes = <<>>
                 /\ Contains(r.node.description, r.schema_name))
    /\ [][cache.loaded => cache' = cache]_vars
    /\ (stack # <<>> /\ ~Has(Store, stack[1].args.schema_name)) ~> RootReturned

\* resolve_schema of an absent name has returned on a store that holds schemas
C4_Witness ==
    /\ doc = 4
    /\ RootReturned
    /\ ret.name = nMissing
    /\ cache.loaded

\* C5 as stated: for every X and Y whose /schema responses are known, X = Y
\* included, Y is in referencedBy of X iff X is in references of Y.
C5_InverseForAll ==
    \A X \in AllNames, Y \in AllNames :
        (responses[X].status = 200 /\ responses[Y].status = 200) =>
            (Y \in Range(responses[X].referencedBy)
                 <=> X \in Range(responses[Y].references))

\* C5 as amended: for DISTINCT X and Y, Y is in referencedBy of X iff X is in
\* references of Y; and no schema is ever in its own referencedBy list.
C5_InverseForDistinct ==
    \A X \in AllNames, Y \in AllNames :
        (responses[X].status = 200 /\ responses[Y].status = 200) =>
            /\ X # Y => (Y \in Range(responses[X].referencedBy)
                             <=> X \in Range(responses[Y].references))
            /\ X \notin Range(responses[X].referencedBy)

\* /schema/A and /schema/C have both been served on the cyclic store, where C
\* references A through allOf and references itself
C5_Witness ==
    /\ doc = 1
    /\ responses[nA].status = 200
    /\ responses[nC].status = 200
    /\ nC \in Range(responses[nA].referencedBy)
    /\ nC \in Range(responses[nC].references)

\* whether a raw node mentions a reference, in itself or anywhere below it
\* under items, properties, allOf, oneOf or anyOf
RECURSIVE MentionsRef(_)
MentionsRef(node) ==
    \/ Has(node, "$ref")
    \/ Has(node, "items") /\ MentionsRef(Get(node, "items", <<>>))
    \/ \E p \in Range(Values(Get(node, "properties", <<>>))) : MentionsRef(p)
    \/ \E key \in {"allOf", "oneOf", "anyOf"} :
           \E member \in Range(Get(node, key, <<>>)) : MentionsRef(member)

\* C6: the references list of a /schema response holds every name that
\* find_all_refs finds in the raw definition, each exactly once; it is empty
\* when the definition mentions no reference; referencesCount is the number
\* of distinct names.
C6_ReferencesOnce ==
    \A A \in AllNames :
        responses[A].status = 200 =>
            LET refs == responses[A].references
                raw == Get(Store, A, <<>>)
            IN /\ \A i \in 1..Len(refs), j \in 1..Len(refs) : refs[i] = refs[j] => i = j
               /\ Range(refs) = Range(find_all_refs(raw))
               /\ ~MentionsRef(raw) => refs = <<>>
               /\ responses[A].relationshipSummary.referencesCount
                      = Cardinality(Range(find_all_refs(raw)))

\* /schema/Order has been served on the store where Order references Cust
\* in its properties and again under allOf
C6_Witness ==
    /\ doc = 4
    /\ responses[nOrder].status = 200
    /\ Len(SelectSeq(find_all_refs(Get(Store, nOrder, <<>>)), LAMBDA n : n = nCustomer)) > 1
    /\ Len(SelectSeq(responses[nOrder].references, LAMBDA n : n = nCustomer)) = 1

\* a description is missing, not a string, or made of whitespace only
LacksDescription(node) ==
    LET d == Get(node, "description", JNone)
    IN ~IsStr(d) \/ \A i \in 1..Len(d.str) : d.str[i] = " "

\* C7: every attribute of every returned tree, at every level, has a
\* non-empty description; an attribute built from a property node without a
\* usable description carries the fallback text with the property's raw name.
C7_DescriptionsNonEmpty ==
    \A r \in Returns :
        /\ \A a \in Range(AllAttrs(r.node.attributes)) : a.description # <<>>
        /\ IsExpansion(r) =>
               \A p \in Range(TopPairs(r) \o NestedPairs(r)) :
                   LacksDescription(p.node) =>
                       p.attr.description
                           = <<"No description provided for \"">> \o p.name \o <<"\".">>

\* resolve_schema(Order) has returned: Order has properties with a missing, a
\* blank and a numeric description and nested inline properties
C7_Witness ==
    /\ doc = 4
    /\ RootReturned
    /\ ret.name = nOrder
    /\ \E p \in Range(TopPairs([schema_name |-> ret.name, node |-> ret.node])) :
           Has(p.node, "description") /\ LacksDescription(p.node)

\* C8: read_json executes at most once, whatever operations are served.
C8_ReadAtMostOnce == reads <= 1

\* a property node that carries $ref and no type
BareRef(node) == Has(node, "$ref") /\ ~Has(node, "type")

\* C9: the attribute built for a bare reference has the referenced schema's
\* name as its type, for top-level and for nested inline properties.
C9_BareRefTypeIsName ==
    \A r \in Returns :
        IsExpansion(r) =>
            \A p \in Range(TopPairs(r) \o NestedPairs(r)) :
                BareRef(p.node) => p.attr.type = ref_name(Get(p.node, "$ref", <<>>))

\* C10: xSinceVersion, xFieldType and xTag of every attribute built from a
\* property node equal the node's own value, else the owning schema's, for
\* top-level and for nested inline properties.
C10_ExtensionFields ==
    \A r \in Returns :
        IsExpansion(r) =>
            LET raw == Get(Store, r.schema_name, <<>>)
                Inherited(node, key) ==
                    IF Has(node, key) THEN Get(node, key, None) ELSE Get(raw, key, None)
            IN \A p \in Range(TopPairs(r) \o NestedPairs(r)) :
                   /\ {"xSinceVersion", "xFieldType", "xTag"} \subseteq DOMAIN p.attr
                   /\ p.attr.xSinceVersion = Inherited(p.node, "x-since-version")
                   /\ p.attr.xFieldType = Inherited(p.node, "x-field-type")
                   /\ p.attr.xTag = Inherited(p.node, "x-tag")

====
